---- MODULE Spec2Model ----
(***************************************************************************)
(* Model of the EntityManager of companion/lib/Instance/EntityManager:     *)
(* the table of tracked entities, the debounced drain, the upgrade RPC     *)
(* round trip and the public calls that edit the table.                    *)
(***************************************************************************)
EXTENDS Integers, Sequences, FiniteSets, TLC

\* ------------------------------------------------------------------ bounds
\* Number of public calls and reclamations in one behaviour.
MaxCalls == 4
\* Number of public calls and reclamations in a behaviour of FairSpec.
MaxFairCalls == 2
\* Number of invalidation calls in a behaviour of TableSpec.
MaxTableCalls == 1
\* Number of public calls in a behaviour of RestartSpec.
MaxRestartCalls == 5
\* Number of tokens in the longest label text drawn for ParseSpec.
MaxTextLen == 2

\* --------------------------------------------------------------- constants
\* The entities of the controls, in the order the maps iterate them.
EntityOrder == <<"e1", "e2">>
EntityIds == {EntityOrder[i] : i \in DOMAIN EntityOrder}
Action == "action"
Feedback == "feedback"
EntityTypes == {Action, Feedback}
VariableIds == {"v1", "v2", "v3"}
\* The sets of changed variables the variable store reports.
ChangedSets == {{}, {"v3"}, {"v2"}, {"v1", "v3"}}

\* enum EntityState
UNLOADED == "UNLOADED"
UPGRADING == "UPGRADING"
UPGRADING_INVALIDATED == "UPGRADING_INVALIDATED"
READY == "READY"
PENDING_DELETE == "PENDING_DELETE"
EntityState == {UNLOADED, UPGRADING, UPGRADING_INVALIDATED, READY, PENDING_DELETE}

\* An optional value that is not set (upgradeIndex?: number).
NoIndex == 0 - 1
\* lastReferencedVariableIds?: a one-element sequence when set.
NoVariables == << >>
\* The upgrade indexes entities are saved with and the module starts with.
UpgradeIndexes == {0, 1}

\* The type of an entity is fixed by the entity; e1 is an action, e2 a feedback.
EntityType(id) == IF id = "e1" THEN Action ELSE Feedback
\* The control that owns an entity.
ControlOf(id) == IF id = "e1" THEN "c1" ELSE "c2"

\* ------------------------------------------------- definitions and options
\* Entity definitions the definition store may hold for an entity type.
NoDefinition == "none"
DefPlain == "plain"
DefLifecycle == "lifecycle"
DefinitionIds == {NoDefinition, DefPlain, DefLifecycle}

\* Fields of a definition: label and id are text inputs with variables,
\* num is a number field; id is ignored for subscribe.
DefinitionFields == <<
    [id |-> "label", type |-> "textinput", useVariables |-> TRUE],
    [id |-> "id", type |-> "textinput", useVariables |-> TRUE],
    [id |-> "num", type |-> "number", useVariables |-> FALSE] >>

GetEntityDefinitionMutant(d) ==
    [ known |-> d # NoDefinition,
      hasLifecycleFunctions |-> TRUE,
      options |-> DefinitionFields,
      optionsToIgnoreForSubscribe |-> {"id"} ]
GetEntityDefinition(d) ==
    [ known |-> d # NoDefinition,
      hasLifecycleFunctions |-> d = DefLifecycle,
      options |-> DefinitionFields,
      optionsToIgnoreForSubscribe |-> {"id"} ]

\* A text is a sequence of tokens; a token "$(v)" is a variable reference.
VarRef(v) == "$(" \o v \o ")"
IsVarRef(tok) == \E v \in VariableIds : tok = VarRef(v)
VarOfRef(tok) == CHOOSE v \in VariableIds : tok = VarRef(v)
VarValue(v) == "val:" \o v

\* The raw options of an entity: two texts, a number and an undeclared key.
EntityOptions ==
    [ label |-> <<"x", VarRef("v1"), VarRef("v2")>>,
      id |-> <<VarRef("v3")>>,
      num |-> <<"7">>,
      junk |-> <<"j">> ]

\* parser.parseVariables(text)
ParseVariables(text) ==
    [ text |-> [i \in DOMAIN text |->
                  IF IsVarRef(text[i]) THEN VarValue(VarOfRef(text[i])) ELSE text[i]],
      variableIds |-> {VarOfRef(text[i]) : i \in {j \in DOMAIN text : IsVarRef(text[j])}} ]

\* options[field.id] is undefined when the options hold no such key, and
\* String(undefined) is the text "undefined".
Undefined == <<"#undefined">>
OptionOf(options, f) == IF f \in DOMAIN options THEN options[f] ELSE Undefined
StringOf(value) == IF value = Undefined THEN <<"undefined">> ELSE value

FieldIds(def) == {def.options[i].id : i \in DOMAIN def.options}
FieldById(def, f) == def.options[CHOOSE i \in DOMAIN def.options : def.options[i].id = f]
FieldNeedsParsing(field) == field.type = "textinput" /\ field.useVariables

ParseOptionsObjectMutant(def, options) ==
    IF ~def.known
    THEN [parsedOptions |-> options, referencedVariableIds |-> {}]
    ELSE [ parsedOptions |->
             [f \in FieldIds(def) |->
                IF FieldNeedsParsing(FieldById(def, f))
                THEN ParseVariables(StringOf(OptionOf(options, f))).text
                ELSE OptionOf(options, f)],
           referencedVariableIds |->
             UNION { ParseVariables(StringOf(OptionOf(options, f))).variableIds :
                       f \in {g \in FieldIds(def) : FieldNeedsParsing(FieldById(def, g))} } ]
ParseOptionsObjectKeepMutant(def, options) ==
    IF ~def.known
    THEN [parsedOptions |-> options, referencedVariableIds |-> {}]
    ELSE [ parsedOptions |->
             [f \in DOMAIN options |->
                IF f \in FieldIds(def) /\ FieldNeedsParsing(FieldById(def, f))
                THEN ParseVariables(StringOf(OptionOf(options, f))).text
                ELSE OptionOf(options, f)],
           referencedVariableIds |->
             UNION { ParseVariables(StringOf(OptionOf(options, f))).variableIds :
                       f \in {g \in FieldIds(def) :
                                /\ FieldNeedsParsing(FieldById(def, g))
                                /\ g \notin def.optionsToIgnoreForSubscribe} } ]
\* parseOptionsObject(entityDefinition, options, controlId)
ParseOptionsObject(def, options) ==
    IF ~def.known
    THEN [parsedOptions |-> options, referencedVariableIds |-> {}]
    ELSE [ parsedOptions |->
             [f \in FieldIds(def) |->
                IF FieldNeedsParsing(FieldById(def, f))
                THEN ParseVariables(StringOf(OptionOf(options, f))).text
                ELSE OptionOf(options, f)],
           referencedVariableIds |->
             UNION { ParseVariables(StringOf(OptionOf(options, f))).variableIds :
                       f \in {g \in FieldIds(def) :
                                /\ FieldNeedsParsing(FieldById(def, g))
                                /\ g \notin def.optionsToIgnoreForSubscribe} } ]

\* ------------------------------------------------------------------- state
VARIABLES
    ready,                \* #ready
    currentUpgradeIndex,  \* #currentUpgradeIndex
    entities,             \* #entities: entity id -> EntityWrapper
    pendingTick,          \* a call of #debounceProcessPending is scheduled
    inflight,             \* upgradeEntities calls awaiting their reply
    nextWrapperId,        \* the next value nanoid() returns
    callsMade,            \* public calls and reclamations so far
    callLimit,            \* the number of calls the behaviour is cut off at
    definitions,          \* the definition store: entity type -> definition
    out                   \* what the last step sent to the transport and the controls

vars == <<ready, currentUpgradeIndex, entities, pendingTick, inflight,
          nextWrapperId, callsMade, callLimit, definitions, out>>

\* Nothing sent, nothing delivered.
Quiet(op) ==
    [ op |-> op, afterStart |-> FALSE, updates |-> {}, upgrades |-> {}, batch |-> {},
      seen |-> << >>, upgraded |-> {}, control |-> << >>, replaced |-> << >>,
      poked |-> FALSE, found |-> "none", deleted |-> {}, sent |-> << >>,
      messages |-> << >>, changed |-> {} ]

\* One more public call (or reclamation) within the bound.
CountCall == callsMade < callLimit /\ callsMade' = callsMade + 1

\* Map operations on #entities.
EmptyMap == [x \in {} |-> x]
MapSet(m, k, v) == [x \in DOMAIN m \cup {k} |-> IF x = k THEN v ELSE m[x]]

Constructed ==
    /\ ready = FALSE
    /\ currentUpgradeIndex = 0
    /\ entities = EmptyMap
    /\ pendingTick = FALSE
    /\ inflight = {}
    /\ nextWrapperId = 1
    /\ callsMade = 0
    /\ definitions = [t \in EntityTypes |-> DefLifecycle]
    /\ out = Quiet("init")

Init == Constructed /\ callLimit = MaxCalls
FairInit == Constructed /\ callLimit = MaxFairCalls

\* What #entities.get(id) returns to a call: the state of the record, or absent.
Found(id) == IF id \in DOMAIN entities THEN entities[id].state ELSE "absent"

NewWrapperMutant(id, wid, upgradeIndex) ==
    [ wrapperId |-> wid,
      entity |-> [live |-> TRUE, upgradeIndex |-> upgradeIndex],
      controlId |-> ControlOf(id),
      state |-> IF id \in DOMAIN entities THEN entities[id].state ELSE UNLOADED,
      lastReferencedVariableIds |-> NoVariables ]
\* The wrapper trackEntity stores.
NewWrapper(id, wid, upgradeIndex) ==
    [ wrapperId |-> wid,
      entity |-> [live |-> TRUE, upgradeIndex |-> upgradeIndex],
      controlId |-> ControlOf(id),
      state |-> UNLOADED,
      lastReferencedVariableIds |-> NoVariables ]

\* trackEntity(entity, controlId)
TrackEntity(id, upgradeIndex) ==
    /\ CountCall
    /\ entities' = MapSet(entities, id, NewWrapper(id, nextWrapperId, upgradeIndex))
    /\ nextWrapperId' = nextWrapperId + 1
    /\ pendingTick' = TRUE
    /\ out' = [Quiet("trackEntity") EXCEPT !.poked = TRUE, !.found = Found(id)]
    /\ UNCHANGED <<ready, currentUpgradeIndex, inflight, definitions, callLimit>>

ForgetEntityTableMutant(tbl, id) ==
    IF id \in DOMAIN tbl
    THEN [tbl EXCEPT ![id].state =
                  IF tbl[id].state = PENDING_DELETE THEN UNLOADED ELSE PENDING_DELETE]
    ELSE tbl
\* The table after forgetEntity(entityId).
ForgetEntityTable(tbl, id) ==
    IF id \in DOMAIN tbl THEN [tbl EXCEPT ![id].state = PENDING_DELETE] ELSE tbl

\* forgetEntity(entityId)
ForgetEntity(id) ==
    /\ CountCall
    /\ entities' = ForgetEntityTable(entities, id)
    /\ pendingTick' = (pendingTick \/ id \in DOMAIN entities)
    /\ out' = [Quiet("forgetEntity") EXCEPT !.poked = (id \in DOMAIN entities),
                                            !.found = Found(id)]
    /\ UNCHANGED <<ready, currentUpgradeIndex, inflight, nextWrapperId, definitions, callLimit>>

InvalidateMutant(w) ==
    CASE w.state = READY -> [w EXCEPT !.state = UNLOADED]
      [] OTHER -> w
\* The switch of resendFeedbacks and onEntityDefinitionsChanged on one wrapper.
Invalidate(w) ==
    CASE w.state = READY -> [w EXCEPT !.state = UNLOADED]
      [] w.state = UPGRADING -> [w EXCEPT !.state = UPGRADING_INVALIDATED]
      [] OTHER -> w

\* The table after resendFeedbacks().
ResendFeedbacksTable(tbl) ==
    [id \in DOMAIN tbl |->
        IF tbl[id].entity.live /\ EntityType(id) = Feedback
        THEN Invalidate(tbl[id]) ELSE tbl[id]]

ResendFeedbacksMutant ==
    LET anyInvalidated == ResendFeedbacksTable(entities) # entities
    IN  /\ CountCall
        /\ entities' = ResendFeedbacksTable(entities)
        /\ pendingTick' = (pendingTick \/ anyInvalidated)
        /\ out' = [Quiet("resendFeedbacks") EXCEPT !.poked = anyInvalidated]
        /\ UNCHANGED <<ready, currentUpgradeIndex, inflight, nextWrapperId, definitions, callLimit>>
\* resendFeedbacks()
ResendFeedbacks ==
    /\ CountCall
    /\ entities' = ResendFeedbacksTable(entities)
    /\ pendingTick' = TRUE
    /\ out' = [Quiet("resendFeedbacks") EXCEPT !.poked = TRUE]
    /\ UNCHANGED <<ready, currentUpgradeIndex, inflight, nextWrapperId, definitions, callLimit>>

VariablesHitMutant(w, variableIds) ==
    /\ w.lastReferencedVariableIds # NoVariables
    /\ w.lastReferencedVariableIds[1] # {}
    /\ variableIds \cap w.lastReferencedVariableIds[1] # {}
\* The wrappers onVariablesChanged(variableIds) moves to UNLOADED.
VariablesHit(w, variableIds) ==
    /\ w.state = READY
    /\ w.lastReferencedVariableIds # NoVariables
    /\ w.lastReferencedVariableIds[1] # {}
    /\ variableIds \cap w.lastReferencedVariableIds[1] # {}

\* The table after onVariablesChanged(variableIds).
VariablesChangedTable(tbl, variableIds) ==
    [id \in DOMAIN tbl |->
        IF VariablesHit(tbl[id], variableIds)
        THEN [tbl[id] EXCEPT !.state = UNLOADED] ELSE tbl[id]]

\* onVariablesChanged(variableIds)
OnVariablesChanged(variableIds) ==
    LET anyInvalidated == \E id \in DOMAIN entities : VariablesHit(entities[id], variableIds)
    IN  /\ CountCall
        /\ entities' = VariablesChangedTable(entities, variableIds)
        /\ pendingTick' = (pendingTick \/ anyInvalidated)
        /\ out' = [Quiet("onVariablesChanged") EXCEPT !.poked = anyInvalidated,
                                                      !.changed = variableIds]
        /\ UNCHANGED <<ready, currentUpgradeIndex, inflight, nextWrapperId, definitions, callLimit>>

DefinitionsTouchMutant(tbl, id, entityType) == tbl[id].entity.live
\* The wrappers onEntityDefinitionsChanged(entityType) looks at.
DefinitionsTouch(tbl, id, entityType) ==
    tbl[id].entity.live /\ EntityType(id) = entityType

DefinitionsChangedTableMutant(tbl, entityType) ==
    [id \in DOMAIN tbl |->
        IF ~DefinitionsTouch(tbl, id, entityType) THEN tbl[id]
        ELSE IF tbl[id].state = UPGRADING_INVALIDATED
        THEN [tbl[id] EXCEPT !.state = UNLOADED]
        ELSE Invalidate(tbl[id])]
\* The table after onEntityDefinitionsChanged(entityType).
DefinitionsChangedTable(tbl, entityType) ==
    [id \in DOMAIN tbl |->
        IF DefinitionsTouch(tbl, id, entityType) THEN Invalidate(tbl[id]) ELSE tbl[id]]

\* The definition store replaces the definition of a type and calls
\* onEntityDefinitionsChanged(entityType).
OnEntityDefinitionsChanged(entityType, d) ==
    LET anyInvalidated ==
            \E id \in DOMAIN entities :
                /\ DefinitionsTouch(entities, id, entityType)
                /\ entities[id].state \in {READY, UPGRADING}
    IN  /\ CountCall
        /\ definitions' = [definitions EXCEPT ![entityType] = d]
        /\ entities' = DefinitionsChangedTable(entities, entityType)
        /\ pendingTick' = (pendingTick \/ anyInvalidated)
        /\ out' = [Quiet("onEntityDefinitionsChanged") EXCEPT !.poked = anyInvalidated]
        /\ UNCHANGED <<ready, currentUpgradeIndex, inflight, nextWrapperId, callLimit>>

\* start(currentUpgradeIndex)
Start(n) ==
    /\ CountCall
    /\ ready' = TRUE
    /\ currentUpgradeIndex' = n
    /\ pendingTick' = TRUE
    /\ out' = [Quiet("start") EXCEPT !.poked = TRUE]
    /\ UNCHANGED <<entities, inflight, nextWrapperId, definitions, callLimit>>

\* destroy()
Destroy ==
    /\ CountCall
    /\ pendingTick' = FALSE
    /\ entities' = EmptyMap
    /\ ready' = FALSE
    /\ out' = Quiet("destroy")
    /\ UNCHANGED <<currentUpgradeIndex, inflight, nextWrapperId, definitions, callLimit>>

\* The owning control drops an entity and the weak reference is cleared.
Reclaim(id) ==
    /\ CountCall
    /\ id \in DOMAIN entities
    /\ entities[id].entity.live
    /\ entities' = [entities EXCEPT ![id].entity.live = FALSE]
    /\ out' = Quiet("reclaim")
    /\ UNCHANGED <<ready, currentUpgradeIndex, pendingTick, inflight, nextWrapperId,
                   definitions, callLimit>>

\* --------------------------------------------------------------- the drain
IsCurrentMutant(w) == w.entity.upgradeIndex = currentUpgradeIndex
\* entity.upgradeIndex === undefined || entity.upgradeIndex === #currentUpgradeIndex
IsCurrent(w) ==
    w.entity.upgradeIndex = NoIndex \/ w.entity.upgradeIndex = currentUpgradeIndex

\* The definition the entity of a wrapper resolves to.
DefinitionOf(id) == GetEntityDefinition(definitions[EntityType(id)])
NeedsUpdateMutant(id) == DefinitionOf(id).known
\* !(!entityDefinition || !entityDefinition.hasLifecycleFunctions)
NeedsUpdate(id) == DefinitionOf(id).known /\ DefinitionOf(id).hasLifecycleFunctions

DrainDeletesMutant(id) ==
    entities[id].state = UNLOADED /\ ~entities[id].entity.live
DrainDeletesReclaimedMutant(id) == entities[id].state = PENDING_DELETE
\* The wrappers the loop deletes from #entities.
DrainDeletes(id) ==
    \/ entities[id].state = UNLOADED /\ ~entities[id].entity.live
    \/ entities[id].state = PENDING_DELETE

\* The wrappers the loop loads, and those it pushes for upgrade.
DrainLoadsMutant(id) ==
    entities[id].state = UNLOADED /\ entities[id].entity.live
DrainLoads(id) ==
    entities[id].state = UNLOADED /\ entities[id].entity.live /\ IsCurrent(entities[id])
DrainUpgradesMutant(id) ==
    entities[id].state \in {UNLOADED, UPGRADING} /\ entities[id].entity.live
        /\ ~IsCurrent(entities[id])
DrainUpgrades(id) ==
    entities[id].state = UNLOADED /\ entities[id].entity.live /\ ~IsCurrent(entities[id])

DrainWrapperMutant(id) ==
    IF DrainUpgrades(id) THEN [entities[id] EXCEPT !.state = UPGRADING] ELSE entities[id]
DrainWrapperClearMutant(id) ==
    LET w == entities[id] IN
    CASE DrainLoads(id) /\ NeedsUpdate(id) ->
            [w EXCEPT !.state = READY,
                      !.lastReferencedVariableIds =
                          <<ParseOptionsObject(DefinitionOf(id), EntityOptions)
                                .referencedVariableIds>>]
      [] DrainLoads(id) /\ ~NeedsUpdate(id) ->
            [w EXCEPT !.state = READY, !.lastReferencedVariableIds = NoVariables]
      [] DrainUpgrades(id) -> [w EXCEPT !.state = UPGRADING]
      [] OTHER -> w
\* The wrapper after the loop has visited it.
DrainWrapper(id) ==
    LET w == entities[id] IN
    CASE DrainLoads(id) /\ NeedsUpdate(id) ->
            [w EXCEPT !.state = READY,
                      !.lastReferencedVariableIds =
                          <<ParseOptionsObject(DefinitionOf(id), EntityOptions)
                                .referencedVariableIds>>]
      [] DrainLoads(id) /\ ~NeedsUpdate(id) -> [w EXCEPT !.state = READY]
      [] DrainUpgrades(id) -> [w EXCEPT !.state = UPGRADING]
      [] OTHER -> w

\* entity.asEntityModel(false), as far as the transport reads it.
EntityModel(id, w) ==
    [ id |-> id, type |-> EntityType(id), upgradeIndex |-> w.entity.upgradeIndex,
      options |-> EntityOptions ]

UpdateItem(id) ==
    [ type |-> "update", controlId |-> entities[id].controlId, entityId |-> id,
      entityModel |-> EntityModel(id, entities[id]),
      parsedOptions |-> ParseOptionsObject(DefinitionOf(id), EntityOptions).parsedOptions ]
DeleteItem(id) ==
    [ type |-> "delete", controlId |-> entities[id].controlId, entityId |-> id,
      entityType |-> EntityType(id) ]
UpgradeItem(id) ==
    [ controlId |-> entities[id].controlId, entityModel |-> EntityModel(id, entities[id]) ]

\* The records a drain deletes from #entities.
DrainDeleted == {<<id, entities[id]>> : id \in {i \in DOMAIN entities : DrainDeletes(i)}}

UpdatedEntitiesMutant ==
    {UpdateItem(id) : id \in {i \in DOMAIN entities : DrainLoads(i) /\ NeedsUpdate(i)}}
      \cup
    {DeleteItem(id) : id \in {i \in DOMAIN entities : entities[i].state = PENDING_DELETE}}
\* updatedEntities, upgradeEntities and entityIdsInThisBatch after the loop.
UpdatedEntities ==
    {UpdateItem(id) : id \in {i \in DOMAIN entities : DrainLoads(i) /\ NeedsUpdate(i)}}
      \cup
    {DeleteItem(id) : id \in {i \in DOMAIN entities :
                                 entities[i].state = PENDING_DELETE /\ entities[i].entity.live}}
UpgradeEntitiesMutant ==
    {UpgradeItem(id) : id \in {i \in DOMAIN entities :
                                  DrainUpgrades(i)
                                    \/ entities[i].state = UPGRADING_INVALIDATED}}
UpgradeEntities == {UpgradeItem(id) : id \in {i \in DOMAIN entities : DrainUpgrades(i)}}
EntityIdsInThisBatchMutant ==
    {<<id, 0>> : id \in {i \in DOMAIN entities : DrainUpgrades(i)}}
EntityIdsInThisBatch ==
    {<<id, entities[id].wrapperId>> : id \in {i \in DOMAIN entities : DrainUpgrades(i)}}

DrainCallsMutant(updated, upgrade) ==
    (IF upgrade # {} THEN <<"upgradeEntities">> ELSE << >>)
        \o (IF updated # {} THEN <<"updateEntities">> ELSE << >>)
\* The adapter methods the drain calls once the loop is done, in call order.
DrainCalls(updated, upgrade) ==
    (IF updated # {} THEN <<"updateEntities">> ELSE << >>)
        \o (IF upgrade # {} THEN <<"upgradeEntities">> ELSE << >>)

\* ------------------------------------------------- the transport adapter
\* A payload slot holds << >> for null and <<instance>> for an instance.
NullInstance == << >>
\* The entity type the adapter switches on for an item.
ItemEntityType(item) ==
    IF item.type = "delete" THEN item.entityType ELSE item.entityModel.type
\* The instance the adapter builds for an update item.
ModuleInstance(item) ==
    [ id |-> item.entityModel.id, controlId |-> item.controlId,
      options |-> item.parsedOptions, upgradeIndex |-> item.entityModel.upgradeIndex ]
\* updateActionsPayload.actions or updateFeedbacksPayload.feedbacks after the
\* loop over the items; a drain hands over at most one item per entity id.
UpdatePayload(items, entityType) ==
    [id \in {i.entityId : i \in {j \in items : ItemEntityType(j) = entityType}} |->
        LET item == CHOOSE i \in items : i.entityId = id
        IN  IF item.type = "delete" THEN NullInstance ELSE <<ModuleInstance(item)>>]
UpdateEntitiesMessagesMutant(items) ==
    << [name |-> "updateActions", payload |-> UpdatePayload(items, Action)],
       [name |-> "updateFeedbacks", payload |-> UpdatePayload(items, Feedback)] >>
\* The messages updateEntities(entities) sends over the IPC wrapper, in order.
UpdateEntitiesMessages(items) ==
    (IF DOMAIN UpdatePayload(items, Action) # {}
     THEN <<[name |-> "updateActions", payload |-> UpdatePayload(items, Action)]>>
     ELSE << >>)
      \o
    (IF DOMAIN UpdatePayload(items, Feedback) # {}
     THEN <<[name |-> "updateFeedbacks", payload |-> UpdatePayload(items, Feedback)]>>
     ELSE << >>)

GateOpenMutant == TRUE
\* if (!this.#ready) return, at the head of the drain.
GateOpen == ready

\* The debounce timer fires and runs the body of #debounceProcessPending.
ProcessPending ==
    /\ pendingTick
    /\ pendingTick' = FALSE
    /\ IF ~GateOpen
       THEN /\ out' = Quiet("drainClosed")
            /\ UNCHANGED <<entities, inflight>>
       ELSE /\ entities' =
                 [id \in {i \in DOMAIN entities : ~DrainDeletes(i)} |-> DrainWrapper(id)]
            /\ inflight' =
                 IF UpgradeEntities # {}
                 THEN inflight \cup {[ batch |-> EntityIdsInThisBatch,
                                       upgradeIndex |-> currentUpgradeIndex ]}
                 ELSE inflight
            /\ out' = [Quiet("drain") EXCEPT !.afterStart = (out.op = "start"),
                                             !.updates = UpdatedEntities,
                                             !.upgrades = UpgradeEntities,
                                             !.batch = EntityIdsInThisBatch,
                                             !.deleted = DrainDeleted,
                                             !.sent = DrainCalls(UpdatedEntities,
                                                                 UpgradeEntities),
                                             !.messages =
                                                 IF UpdatedEntities # {}
                                                 THEN UpdateEntitiesMessages(UpdatedEntities)
                                                 ELSE << >>]
    /\ UNCHANGED <<ready, currentUpgradeIndex, nextWrapperId, callsMade, definitions, callLimit>>

\* ------------------------------------------------------- the upgrade reply
BatchIds(rpc) == {p[1] : p \in rpc.batch}
BatchWrapperMutant(rpc, id) ==
    IF id \in DOMAIN entities THEN entities[id].wrapperId ELSE 0
BatchWrapper(rpc, id) == (CHOOSE p \in rpc.batch : p[1] = id)[2]

SeenMutant(rpc, id) ==
    IF id \notin DOMAIN entities
    THEN "gone"
    ELSE IF ~entities[id].entity.live THEN "reclaimed" ELSE entities[id].state
\* What the continuation finds under an entity id of the batch.
Seen(rpc, id) ==
    IF id \notin DOMAIN entities \/ entities[id].wrapperId # BatchWrapper(rpc, id)
    THEN "gone"
    ELSE IF ~entities[id].entity.live THEN "reclaimed" ELSE entities[id].state

\* The entries for which the continuation asks the control store.
ControlLookups(rpc) == {id \in BatchIds(rpc) : Seen(rpc, id) = UPGRADING}

\* What happens at the owning control of an entry: it is there and takes the
\* replacement, it is missing (or supports no entities), or entityReplace throws.
ControlOutcomes == {"ok", "missing", "throws"}

ReplacedPendingDeleteMutant(rpc, upgraded, ctl) ==
    {id \in BatchIds(rpc) :
        /\ Seen(rpc, id) \in {UPGRADING, PENDING_DELETE}
        /\ id \in upgraded
        /\ (id \in DOMAIN ctl => ctl[id] = "ok")}
ReplacedAbortMutant(rpc, upgraded, ctl) ==
    {id \in BatchIds(rpc) :
        /\ Seen(rpc, id) = UPGRADING /\ ctl[id] = "ok" /\ id \in upgraded
        /\ \A other \in DOMAIN ctl : ctl[other] = "ok"}
\* The entries whose replacement reaches control.entities.entityReplace
\* without an exception.
Replaced(rpc, upgraded, ctl) ==
    {id \in BatchIds(rpc) :
        Seen(rpc, id) = UPGRADING /\ ctl[id] = "ok" /\ id \in upgraded}

ReplaceCallsMutant(rpc, upgraded, ctl) ==
    {id \in BatchIds(rpc) :
        /\ Seen(rpc, id) \in {UPGRADING, UPGRADING_INVALIDATED}
        /\ id \in upgraded
        /\ (id \in DOMAIN ctl => ctl[id] # "missing")}
\* The entries for which entityReplace is called (it may throw).
ReplaceCalls(rpc, upgraded, ctl) ==
    {id \in BatchIds(rpc) :
        Seen(rpc, id) = UPGRADING /\ ctl[id] # "missing" /\ id \in upgraded}

RankMutant(id, ids) == 0
\* Position of an id among the ids of a set, in map order.
Rank(id, ids) ==
    Cardinality({j \in DOMAIN EntityOrder :
                    /\ EntityOrder[j] \in ids
                    /\ j < (CHOOSE k \in DOMAIN EntityOrder : EntityOrder[k] = id)})

\* The ids of a set in map order.
RECURSIVE InOrder(_, _)
InOrder(ids, from) ==
    IF from > Len(EntityOrder) THEN << >>
    ELSE (IF EntityOrder[from] \in ids THEN <<EntityOrder[from]>> ELSE << >>)
            \o InOrder(ids, from + 1)

ReplaceableModelMutant(rpc, id) ==
    [ id |-> id, type |-> EntityType(id), upgradeIndex |-> currentUpgradeIndex ]
\* The replaceable model upgradeEntities builds for an upgraded entity.
ReplaceableModel(rpc, id) ==
    [ id |-> id, type |-> EntityType(id), upgradeIndex |-> rpc.upgradeIndex ]

\* control.entities.entityReplace(model): the control stores the model in its
\* entity and subscribes it again, which calls trackEntity.
EntityReplace(rpc, id, wid) == NewWrapper(id, wid, rpc.upgradeIndex)

ReplyGateOpenMutant == TRUE
\* if (!this.#ready) return, at the head of the continuation.
ReplyGateOpen == ready

ReplyPokedMutant(rpc, upgraded, ctl) == \A id \in DOMAIN ctl : ctl[id] = "ok"
\* this.#debounceProcessPending() after the loop over the batch: every entry
\* leaves the loop body by break or continue, so the call is always reached.
ReplyPoked(rpc, upgraded, ctl) == TRUE

\* upgradeEntities(...).then: the reply lists the entities of `upgraded`.
UpgradeReply(rpc, upgraded, ctl) ==
    /\ rpc \in inflight
    /\ inflight' = inflight \ {rpc}
    /\ IF ~ReplyGateOpen
       THEN /\ out' = [Quiet("replyClosed") EXCEPT !.batch = rpc.batch]
            /\ UNCHANGED <<entities, pendingTick, nextWrapperId>>
       ELSE LET rep == Replaced(rpc, upgraded, ctl)
                calls == InOrder(ReplaceCalls(rpc, upgraded, ctl), 1)
                keep == {id \in DOMAIN entities :
                            ~(id \in BatchIds(rpc) /\ Seen(rpc, id) = "reclaimed")}
            IN  /\ entities' =
                     [id \in keep |->
                        IF id \notin BatchIds(rpc) THEN entities[id]
                        ELSE CASE Seen(rpc, id) = UPGRADING_INVALIDATED ->
                                    [entities[id] EXCEPT !.state = UNLOADED]
                               [] id \in rep ->
                                    EntityReplace(rpc, id, nextWrapperId + Rank(id, rep))
                               [] OTHER -> entities[id]]
                /\ nextWrapperId' = nextWrapperId + Cardinality(rep)
                /\ pendingTick' = (pendingTick \/ ReplyPoked(rpc, upgraded, ctl))
                /\ out' = [Quiet("reply") EXCEPT
                             !.batch = rpc.batch,
                             !.seen = [id \in BatchIds(rpc) |-> Seen(rpc, id)],
                             !.upgraded = upgraded,
                             !.control = ctl,
                             !.replaced = [i \in DOMAIN calls |->
                                              ReplaceableModel(rpc, calls[i])],
                             !.deleted = {<<id, entities[id]>> :
                                             id \in DOMAIN entities \ keep},
                             !.poked = ReplyPoked(rpc, upgraded, ctl)]
    /\ UNCHANGED <<ready, currentUpgradeIndex, callsMade, definitions, callLimit>>

FailedWrapperMutant(w) ==
    CASE w.state = UPGRADING -> [w EXCEPT !.state = UNLOADED]
      [] w.state = UPGRADING_INVALIDATED -> [w EXCEPT !.state = UNLOADED]
      [] OTHER -> w
FailedWrapperRetryMutant(w) ==
    IF w.state = UPGRADING THEN [w EXCEPT !.state = UNLOADED] ELSE w
\* What the failure handler does to a wrapper of its batch.
FailedWrapper(w) ==
    CASE w.state = UPGRADING -> [w EXCEPT !.state = READY]
      [] w.state = UPGRADING_INVALIDATED -> [w EXCEPT !.state = UNLOADED]
      [] OTHER -> w

\* upgradeEntities(...).catch: the RPC failed.
UpgradeFailed(rpc) ==
    /\ rpc \in inflight
    /\ inflight' = inflight \ {rpc}
    /\ entities' =
         [id \in DOMAIN entities |->
            IF id \in BatchIds(rpc) /\ entities[id].wrapperId = BatchWrapper(rpc, id)
            THEN FailedWrapper(entities[id])
            ELSE entities[id]]
    /\ pendingTick' = TRUE
    /\ out' = [Quiet("replyFailed") EXCEPT
                 !.batch = rpc.batch,
                 !.seen = [id \in BatchIds(rpc) |->
                             IF id \notin DOMAIN entities
                                  \/ entities[id].wrapperId # BatchWrapper(rpc, id)
                             THEN "gone" ELSE entities[id].state],
                 !.poked = TRUE]
    /\ UNCHANGED <<ready, currentUpgradeIndex, nextWrapperId, callsMade, definitions, callLimit>>

\* The module answers an upgrade RPC, or the RPC fails.
Replied ==
    \E rpc \in inflight, upgraded \in SUBSET EntityIds :
        /\ upgraded \subseteq BatchIds(rpc)
        /\ \E ctl \in [ControlLookups(rpc) -> ControlOutcomes] :
              /\ \A id \in DOMAIN ctl : ctl[id] = "throws" => id \in upgraded
              /\ UpgradeReply(rpc, upgraded, ctl)
Failed == \E rpc \in inflight : UpgradeFailed(rpc)

Next ==
    \/ \E id \in EntityIds, ui \in UpgradeIndexes \cup {NoIndex} : TrackEntity(id, ui)
    \/ \E id \in EntityIds : ForgetEntity(id)
    \/ ResendFeedbacks
    \/ \E vs \in ChangedSets : OnVariablesChanged(vs)
    \/ \E t \in EntityTypes, d \in DefinitionIds : OnEntityDefinitionsChanged(t, d)
    \/ \E n \in UpgradeIndexes : Start(n)
    \/ Destroy
    \/ \E id \in EntityIds : Reclaim(id)
    \/ ProcessPending
    \/ Replied
    \/ Failed

Spec == Init /\ [][Next]_vars

\* The behaviours in which the calls stop after MaxFairCalls, the debounce
\* timer fires when a tick is scheduled and every upgrade RPC is answered.
FairSpec ==
    /\ FairInit
    /\ [][Next]_vars
    /\ WF_vars(ProcessPending)
    /\ WF_vars(Replied \/ Failed)

\* --------------------------------------------- invalidations on any table
\* The values lastReferencedVariableIds takes: unset, the empty set, the
\* variables of the label option, another variable.
ReferencedSets == {NoVariables, <<{}>>, <<{"v1", "v2"}>>, <<{"v3"}>>}

\* The wrappers a table may hold under an entity id.
WrappersOf(id) ==
    [ wrapperId : {IF id = "e1" THEN 1 ELSE 2},
      entity : [live : BOOLEAN, upgradeIndex : {NoIndex}],
      controlId : {ControlOf(id)},
      state : EntityState,
      lastReferencedVariableIds : ReferencedSets ]

\* Every record table over the entity ids: each id is absent or holds a
\* wrapper in any state.
Tables ==
    UNION { {t \in [ids -> UNION {WrappersOf(id) : id \in ids}] :
                \A id \in ids : t[id] \in WrappersOf(id)} : ids \in SUBSET EntityIds }

\* The engine with the gate open and any record table.
TableInit ==
    /\ ready = TRUE
    /\ currentUpgradeIndex = 0
    /\ entities \in Tables
    /\ pendingTick = FALSE
    /\ inflight = {}
    /\ nextWrapperId = 3
    /\ callsMade = 0
    /\ callLimit = MaxTableCalls
    /\ definitions = [t \in EntityTypes |-> DefLifecycle]
    /\ out = Quiet("init")

\* The two invalidation calls.
TableNext ==
    \/ \E vs \in ChangedSets : OnVariablesChanged(vs)
    \/ \E t \in EntityTypes, d \in DefinitionIds : OnEntityDefinitionsChanged(t, d)

TableSpec == TableInit /\ [][TableNext]_vars

\* ------------------------------------------------------ restart of the engine
\* The calls of a module restart: entities are tracked while the engine holds
\* no record under their id, the module is started and destroyed; the drain
\* and the replies run as in Spec.
RestartInit == Constructed /\ callLimit = MaxRestartCalls
RestartNext ==
    \/ \E id \in EntityIds, ui \in UpgradeIndexes :
          id \notin DOMAIN entities /\ TrackEntity(id, ui)
    \/ \E n \in UpgradeIndexes : Start(n)
    \/ Destroy
    \/ ProcessPending
    \/ Replied
    \/ Failed
RestartSpec == RestartInit /\ [][RestartNext]_vars

\* ------------------------------------------------ the option parse on its own
\* parseOptionsObject applied to drawn definitions and options objects. The
\* texts of the label option are the token sequences up to MaxTextLen.
Tokens == {"x", VarRef("v1"), VarRef("v3")}
Texts == UNION {[1..n -> Tokens] : n \in 0..MaxTextLen}
OptionKeys == DOMAIN EntityOptions
OptionsWith(keys, label) ==
    [k \in keys |-> IF k = "label" THEN label ELSE EntityOptions[k]]
OptionsInputs == {OptionsWith(keys, label) : keys \in SUBSET OptionKeys, label \in Texts}
FieldLists ==
    { << [id |-> "label", type |-> t, useVariables |-> u],
         [id |-> "id", type |-> "textinput", useVariables |-> TRUE],
         [id |-> "num", type |-> "number", useVariables |-> n] >> :
        t \in {"textinput", "number"}, u \in BOOLEAN, n \in BOOLEAN }
DefinitionInputs ==
    {GetEntityDefinition(NoDefinition)}
      \cup {[GetEntityDefinition(DefLifecycle) EXCEPT !.options = fields] :
                fields \in FieldLists}

ParseInit ==
    /\ ready = FALSE
    /\ currentUpgradeIndex = 0
    /\ entities = EmptyMap
    /\ pendingTick = FALSE
    /\ inflight = {}
    /\ nextWrapperId = 1
    /\ callsMade = 0
    /\ callLimit = 1
    /\ definitions = [t \in EntityTypes |-> DefLifecycle]
    /\ \E def \in DefinitionInputs, options \in OptionsInputs :
          out = [op |-> "options", definition |-> def, options |-> options]

\* parseOptionsObject(entityDefinition, options, controlId)
ParseOptions ==
    /\ out.op = "options"
    /\ CountCall
    /\ out' = [ op |-> "parseOptionsObject", definition |-> out.definition,
                options |-> out.options,
                result |-> ParseOptionsObject(out.definition, out.options) ]
    /\ UNCHANGED <<ready, currentUpgradeIndex, entities, pendingTick, inflight,
                   nextWrapperId, definitions, callLimit>>

ParseNext == ParseOptions
ParseSpec == ParseInit /\ [][ParseNext]_vars

\* ------------------------------------------------------------------ claims
\* The items of a kind the last step sent for an entity id.
UpdatesFor(o, id) == {it \in o.updates : it.entityId = id}
UpgradesFor(o, id) == {it \in o.upgrades : it.entityModel.id = id}
ReplaceCount(o, id) == Cardinality({i \in DOMAIN o.replaced : o.replaced[i].id = id})
InflightWith(id) == {rpc \in inflight : id \in BatchIds(rpc)}

\* C1: a step taken while the gate is closed makes no updateEntities and no
\* upgradeEntities call: it sends no item and puts no RPC in flight.
C1_GateClosedNoRpc ==
    [][~ready => /\ out'.updates = {}
                 /\ out'.upgrades = {}
                 /\ inflight' \subseteq inflight]_vars

\* A tick fired with the gate closed while a record was waiting.
C1_Witness ==
    /\ ~ready
    /\ out.op = "drainClosed"
    /\ \E id \in DOMAIN entities : entities[id].state \in {UNLOADED, PENDING_DELETE}

\* C2 as stated: for each entity id at most one upgrade RPC whose batch
\* contains the id awaits its reply.
C2_OnePerEntityId == \A id \in EntityIds : Cardinality(InflightWith(id)) <= 1

\* C2 amended: for each record (wrapper id) at most one upgrade RPC whose
\* batch snapshot holds that wrapper id awaits its reply.
C2_OnePerWrapper ==
    \A r1 \in inflight, r2 \in inflight : r1 # r2 => r1.batch \cap r2.batch = {}

\* Two RPCs in flight for one entity id, the record of the older one replaced.
C2_Witness ==
    \E id \in DOMAIN entities :
        /\ Cardinality(InflightWith(id)) = 2
        /\ entities[id].state = UPGRADING

\* Nothing is scheduled and no reply is awaited: without a further call the
\* engine takes no step.
Quiescent == ready /\ ~pendingTick /\ inflight = {}

\* C3 as stated: once the engine has come to rest with the gate open, every
\* tracked record whose weak handle is live is in Ready (or was removed); none
\* is left in Unloaded, Upgrading or UpgradingInvalidated.
C3_NoRecordLeftBehind ==
    Quiescent =>
        \A id \in DOMAIN entities :
            entities[id].entity.live => entities[id].state = READY

\* The record under id is the one the batch of the last reply was sent for.
StillBatchRecord(id) ==
    /\ id \in DOMAIN entities
    /\ \E p \in out.batch : p[1] = id /\ p[2] = entities[id].wrapperId

\* C4 as stated: after a successful reply was processed for a record in
\* Upgrading (wrapper id matching, handle live), no record with that wrapper
\* id is still in Upgrading.
C4_ReplyLeavesUpgrading ==
    out.op = "reply" =>
        \A id \in DOMAIN out.seen :
            out.seen[id] = UPGRADING =>
                ~(StillBatchRecord(id) /\ entities[id].state = UPGRADING)

\* C5 as stated: for every record of the batch found in Upgrading with its
\* wrapper id unchanged, the replacement of a successful reply is delivered to
\* the control exactly once.
C5_DeliveredExactlyOnce ==
    out.op = "reply" =>
        \A id \in DOMAIN out.seen :
            (out.seen[id] = UPGRADING /\ id \in out.upgraded)
                => ReplaceCount(out, id) = 1

\* C5 amended: entityReplace is called exactly once for a record of the batch
\* found in Upgrading with its wrapper id unchanged when the reply holds a
\* replacement for it and its control is there and supports entities, and is
\* not called for any other entry of the batch.
C5_DeliveredOnceIfControl ==
    out.op = "reply" =>
        \A id \in DOMAIN out.seen :
            ReplaceCount(out, id) =
                IF /\ out.seen[id] = UPGRADING
                   /\ id \in out.upgraded
                   /\ out.control[id] # "missing"
                THEN 1 ELSE 0

\* A reply delivered a replacement, and the control re-tracked the entity.
C5_Witness ==
    /\ out.op = "reply"
    /\ \E id \in DOMAIN out.seen :
          /\ out.seen[id] = UPGRADING
          /\ id \in out.upgraded
          /\ out.control[id] = "ok"
          /\ ReplaceCount(out, id) = 1
          /\ entities[id].state = UNLOADED
          /\ ~StillBatchRecord(id)

\* The step is an invalidation call that reaches the record under id:
\* resendFeedbacks for a feedback, onEntityDefinitionsChanged of its type.
InvalidationCallOn(id) ==
    \/ ResendFeedbacks /\ EntityType(id) = Feedback
    \/ \E d \in DefinitionIds : OnEntityDefinitionsChanged(EntityType(id), d)

\* C6: a record sent for upgrade and invalidated before the reply is marked
\* UpgradingInvalidated; a successful reply then delivers no replacement for
\* it and sets it to Unloaded, and a drain that finds it Unloaded with a stale
\* upgrade index sends a fresh upgrade for it.
C6_InvalidatedReplyDiscarded ==
    /\ [][\A id \in DOMAIN entities :
            (/\ entities[id].state = UPGRADING
             /\ entities[id].entity.live
             /\ InvalidationCallOn(id))
                => entities'[id] = [entities[id] EXCEPT !.state = UPGRADING_INVALIDATED]]_vars
    /\ [](out.op = "reply" =>
            \A id \in DOMAIN out.seen :
                out.seen[id] = UPGRADING_INVALIDATED =>
                    /\ ReplaceCount(out, id) = 0
                    /\ StillBatchRecord(id)
                    /\ entities[id].state = UNLOADED)
    /\ [][\A id \in DOMAIN entities :
            (/\ ProcessPending
             /\ ready
             /\ entities[id].state = UNLOADED
             /\ entities[id].entity.live
             /\ ~IsCurrent(entities[id]))
                => /\ Cardinality(UpgradesFor(out', id)) = 1
                   /\ <<id, entities[id].wrapperId>> \in out'.batch
                   /\ \E rpc \in inflight' \ inflight : rpc.batch = out'.batch
                   /\ entities'[id] = [entities[id] EXCEPT !.state = UPGRADING]]_vars

\* A reply with a replacement for an invalidated record was processed: the
\* record is Unloaded again, still stale, and nothing was delivered.
C6_Witness ==
    /\ out.op = "reply"
    /\ \E id \in DOMAIN out.seen :
          /\ out.seen[id] = UPGRADING_INVALIDATED
          /\ id \in out.upgraded
          /\ entities[id].state = UNLOADED
          /\ ~IsCurrent(entities[id])
          /\ pendingTick

\* The step processes the reply (or the failure) of rpc.
ReplyStepOf(rpc) ==
    /\ rpc \in inflight
    /\ rpc \notin inflight'
    /\ out'.op \in {"reply", "replyFailed"}
    /\ out'.batch = rpc.batch

\* The record under id is not the one rpc was sent for.
Mismatch(rpc, id) ==
    id \notin DOMAIN entities \/ entities[id].wrapperId # BatchWrapper(rpc, id)

\* C7: the reply of an upgrade RPC, success or failure, leaves the slot of
\* every batch entry whose snapshot wrapper id differs from the current
\* record's (or whose record is gone) as it was, and delivers no replacement
\* for it.
C7_StaleEntryIgnored ==
    [][\A rpc \in inflight :
          ReplyStepOf(rpc) =>
              \A id \in BatchIds(rpc) :
                  Mismatch(rpc, id) =>
                      /\ (id \in DOMAIN entities') = (id \in DOMAIN entities)
                      /\ (id \in DOMAIN entities => entities'[id] = entities[id])
                      /\ ReplaceCount(out', id) = 0]_vars

\* A successful reply held a replacement for an entity id whose record had
\* been replaced by trackEntity while the RPC was in flight.
C7_Witness ==
    /\ out.op = "reply"
    /\ \E id \in DOMAIN out.seen :
          /\ out.seen[id] = "gone"
          /\ id \in out.upgraded
          /\ id \in DOMAIN entities
          /\ entities[id].state \in {UNLOADED, UPGRADING}

\* C8: when an upgrade RPC fails, a record of the batch with the snapshot
\* wrapper id goes from Upgrading to Ready and from UpgradingInvalidated to
\* Unloaded, every other record is unchanged, no replacement is delivered and
\* the scheduler is poked.
C8_FailureTransitions ==
    [][\A rpc \in inflight :
          (ReplyStepOf(rpc) /\ out'.op = "replyFailed") =>
              /\ DOMAIN entities' = DOMAIN entities
              /\ \A id \in DOMAIN entities :
                    entities'[id] =
                        IF id \in BatchIds(rpc) /\ ~Mismatch(rpc, id)
                        THEN CASE entities[id].state = UPGRADING ->
                                    [entities[id] EXCEPT !.state = READY]
                               [] entities[id].state = UPGRADING_INVALIDATED ->
                                    [entities[id] EXCEPT !.state = UNLOADED]
                               [] OTHER -> entities[id]
                        ELSE entities[id]
              /\ out'.replaced = << >>
              /\ out'.poked
              /\ pendingTick']_vars

\* A failed RPC moved a record from Upgrading to Ready.
C8_Witness ==
    /\ out.op = "replyFailed"
    /\ \E id \in DOMAIN out.seen :
          /\ out.seen[id] = UPGRADING
          /\ id \in DOMAIN entities
          /\ entities[id].state = READY

\* upgrade index absent or equal to the current one
NonStale(w) ==
    w.entity.upgradeIndex = NoIndex \/ w.entity.upgradeIndex = currentUpgradeIndex

\* The text of the label option with the variable values filled in.
ExpectedParsedOptions ==
    [ label |-> <<"x", VarValue("v1"), VarValue("v2")>>,
      id |-> <<VarValue("v3")>>,
      num |-> <<"7">> ]

\* The record under id waits for its first pass: gate open, handle live,
\* upgrade index not stale, definition with lifecycle functions.
AwaitsUpdate(id) ==
    /\ ready
    /\ id \in DOMAIN entities
    /\ entities[id].state = UNLOADED
    /\ entities[id].entity.live
    /\ NonStale(entities[id])
    /\ definitions[EntityType(id)] = DefLifecycle

\* The last step was a drain that sent exactly one update item for id, with
\* the parsed options.
UpdateEmitted(id) ==
    /\ out.op = "drain"
    /\ Cardinality(UpdatesFor(out, id)) = 1
    /\ \A it \in UpdatesFor(out, id) :
          it.type = "update" /\ it.parsedOptions = ExpectedParsedOptions
    /\ UpgradesFor(out, id) = {}

\* C9: a non-stale entity with a lifecycle-bearing definition, tracked with the
\* gate open, gets exactly one update item with its parsed options unless a
\* later call or a reclamation comes first; an upgrade item is only ever sent
\* for a record that is stale; and a record that is Ready gets no further item
\* and keeps its record as long as no call is made.
C9_RoundTrip ==
    /\ \A id \in EntityIds, n \in 0 .. MaxFairCalls :
          (AwaitsUpdate(id) /\ callsMade = n) ~> (UpdateEmitted(id) \/ callsMade > n)
    /\ [][\A id \in EntityIds :
            UpgradesFor(out', id) # {} =>
                id \in DOMAIN entities /\ ~NonStale(entities[id])]_vars
    /\ [][\A id \in DOMAIN entities :
            (entities[id].state = READY /\ callsMade' = callsMade) =>
                /\ id \in DOMAIN entities'
                /\ entities'[id] = entities[id]
                /\ UpdatesFor(out', id) = {}
                /\ UpgradesFor(out', id) = {}]_vars

\* The drain sent the update of a record tracked after start; no call came
\* in between.
C9_Witness ==
    /\ out.op = "drain"
    /\ ~out.afterStart
    /\ callsMade = 2
    /\ \E id \in DOMAIN entities :
          /\ UpdateEmitted(id)
          /\ entities[id].state = READY
          /\ entities[id].lastReferencedVariableIds = <<{"v1", "v2"}>>

\* The items a drain owes the record under id, read off the record table.
OwedUpdates(id) ==
    IF id \notin DOMAIN entities \/ ~entities[id].entity.live THEN {}
    ELSE IF entities[id].state = PENDING_DELETE
    THEN {[ type |-> "delete", controlId |-> ControlOf(id), entityId |-> id,
            entityType |-> EntityType(id) ]}
    ELSE IF /\ entities[id].state = UNLOADED
            /\ NonStale(entities[id])
            /\ definitions[EntityType(id)] = DefLifecycle
    THEN {[ type |-> "update", controlId |-> ControlOf(id), entityId |-> id,
            entityModel |-> [ id |-> id, type |-> EntityType(id),
                              upgradeIndex |-> entities[id].entity.upgradeIndex,
                              options |-> EntityOptions ],
            parsedOptions |-> ExpectedParsedOptions ]}
    ELSE {}
OwedUpgrades(id) ==
    IF /\ id \in DOMAIN entities
       /\ entities[id].entity.live
       /\ entities[id].state = UNLOADED
       /\ ~NonStale(entities[id])
    THEN {[ controlId |-> ControlOf(id),
            entityModel |-> [ id |-> id, type |-> EntityType(id),
                              upgradeIndex |-> entities[id].entity.upgradeIndex,
                              options |-> EntityOptions ] ]}
    ELSE {}

\* C10: while the gate is closed a tick changes no record and only destroy
\* removes one; a drain with the gate open sends, for every entity id, exactly
\* the items the record table owes at that moment, and leaves no record
\* Unloaded or PendingDelete.
C10_DrainReadsNetTable ==
    [][/\ (ProcessPending /\ ~ready) => entities' = entities
       /\ (~ready /\ out'.op # "destroy") => DOMAIN entities \subseteq DOMAIN entities'
       /\ (ProcessPending /\ ready) =>
            /\ \A id \in EntityIds :
                  /\ UpdatesFor(out', id) = OwedUpdates(id)
                  /\ UpgradesFor(out', id) = OwedUpgrades(id)
            /\ \A id \in DOMAIN entities' :
                  entities'[id].state \notin {UNLOADED, PENDING_DELETE}]_vars

\* One entity was tracked and forgotten before the only start; the drain
\* right after start sent its delete item.
C10_Witness ==
    /\ out.op = "drain"
    /\ out.afterStart
    /\ callsMade = 3
    /\ nextWrapperId = 2
    /\ \E it \in out.updates : it.type = "delete"
    /\ entities = EmptyMap

\* C11: trackEntity on an entity id whose record is absent or in any state
\* leaves one record under that id with a wrapper id the previous record did
\* not have, state Unloaded and no last-referenced variable set; the records
\* of the other ids are unchanged.
C11_TrackResetsRecord ==
    [][out'.op = "trackEntity" =>
          \E id \in EntityIds :
              /\ DOMAIN entities' = DOMAIN entities \cup {id}
              /\ entities'[id].state = UNLOADED
              /\ entities'[id].lastReferencedVariableIds = NoVariables
              /\ entities'[id].entity.live
              /\ out'.found = Found(id)
              /\ (id \in DOMAIN entities =>
                      entities'[id].wrapperId # entities[id].wrapperId)
              /\ \A other \in DOMAIN entities \ {id} :
                      entities'[other] = entities[other]]_vars

\* trackEntity replaced a record that was UpgradingInvalidated; the RPC sent
\* for the old record is still in flight.
C11_Witness ==
    /\ out.op = "trackEntity"
    /\ out.found = UPGRADING_INVALIDATED
    /\ \E id \in DOMAIN entities :
          /\ entities[id].state = UNLOADED
          /\ entities[id].wrapperId = nextWrapperId - 1
          /\ \E rpc \in inflight : \E p \in rpc.batch :
                p[1] = id /\ p[2] < entities[id].wrapperId

\* C12: forgetEntity(id) sets the record under id, whatever its state, to
\* PendingDelete and changes nothing else; applied a second time before the
\* drain it leaves the record table as the first call left it; for an id
\* without a record it changes no record and schedules nothing.
C12_ForgetIdempotent ==
    /\ [][\A id \in EntityIds :
            ForgetEntity(id) =>
                IF id \in DOMAIN entities
                THEN /\ entities' = [entities EXCEPT ![id].state = PENDING_DELETE]
                     /\ pendingTick'
                ELSE /\ entities' = entities
                     /\ pendingTick' = pendingTick
                     /\ ~out'.poked]_vars
    /\ [][\A id \in EntityIds :
            (ForgetEntity(id) /\ Found(id) = PENDING_DELETE)
                => entities' = entities]_vars
    /\ [](\A id \in EntityIds :
            ForgetEntityTable(ForgetEntityTable(entities, id), id)
                = ForgetEntityTable(entities, id))

\* forgetEntity was called on a record that a forgetEntity call had already
\* set to PendingDelete and no drain has removed yet.
C12_Witness ==
    /\ out.op = "forgetEntity"
    /\ out.found = PENDING_DELETE
    /\ pendingTick
    /\ \E id \in DOMAIN entities : entities[id].state = PENDING_DELETE

\* The delete item of the record under id.
DeleteItemOf(id) ==
    [ type |-> "delete", controlId |-> ControlOf(id), entityId |-> id,
      entityType |-> EntityType(id) ]

\* C13: a record tracked and then forgotten before any drain, its handle still
\* live, gets from the next drain with the gate open exactly one delete item,
\* no update item and no upgrade item, whether or not its upgrade index is
\* stale, and is removed from the table.
C13_TrackForgetDeletesOnce ==
    [][\A id \in DOMAIN entities :
          (/\ ProcessPending
           /\ ready
           /\ entities[id].state = PENDING_DELETE
           /\ entities[id].entity.live)
              => /\ UpdatesFor(out', id) = {DeleteItemOf(id)}
                 /\ UpgradesFor(out', id) = {}
                 /\ \A p \in out'.batch : p[1] # id
                 /\ \A rpc \in inflight' \ inflight : id \notin BatchIds(rpc)
                 /\ id \notin DOMAIN entities']_vars

\* An entity with a stale upgrade index was tracked and forgotten before
\* start; the drain right after start sent only its delete item.
C13_Witness ==
    /\ out.op = "drain"
    /\ out.afterStart
    /\ callsMade = 3
    /\ nextWrapperId = 2
    /\ inflight = {}
    /\ entities = EmptyMap
    /\ out.upgrades = {}
    /\ \E d \in out.deleted :
          /\ d[2].state = PENDING_DELETE
          /\ d[2].entity.live
          /\ d[2].entity.upgradeIndex \notin {NoIndex, currentUpgradeIndex}
          /\ out.updates = {DeleteItemOf(d[1])}

\* The record is Ready with a non-empty last-referenced set that meets changed.
ReadyAndReferences(w, changed) ==
    /\ w.state = READY
    /\ w.lastReferencedVariableIds # NoVariables
    /\ w.lastReferencedVariableIds[1] # {}
    /\ w.lastReferencedVariableIds[1] \cap changed # {}

\* C14: onVariablesChanged(changed) sets to Unloaded exactly the records that
\* are Ready with a non-empty last-referenced variable set meeting changed and
\* leaves every other record as it was; it pokes the scheduler only if a
\* record moved, so with the empty set it changes no record and pokes nothing.
C14_VariablesChangedFrame ==
    /\ [][\A changed \in ChangedSets :
            OnVariablesChanged(changed) =>
                /\ DOMAIN entities' = DOMAIN entities
                /\ \A id \in DOMAIN entities :
                      entities'[id] =
                          IF ReadyAndReferences(entities[id], changed)
                          THEN [entities[id] EXCEPT !.state = UNLOADED]
                          ELSE entities[id]
                /\ out'.poked =
                      (\E id \in DOMAIN entities :
                            ReadyAndReferences(entities[id], changed))
                /\ (~out'.poked => pendingTick' = pendingTick)
                /\ (changed = {} =>
                        entities' = entities /\ ~out'.poked)]_vars
    /\ [](\A changed \in SUBSET VariableIds, st \in EntityState :
            ~VariablesHit([state |-> st, lastReferencedVariableIds |-> <<{}>>], changed))

\* A variable change moved a Ready record that references v1 and v2 to
\* Unloaded, poked the scheduler, and left a record tracked later alone.
C14_Witness ==
    /\ out.op = "onVariablesChanged"
    /\ out.poked
    /\ pendingTick
    /\ \E id \in DOMAIN entities :
          /\ entities[id].state = UNLOADED
          /\ entities[id].lastReferencedVariableIds = <<{"v1", "v2"}>>
    /\ \E id \in DOMAIN entities :
          /\ entities[id].state = UNLOADED
          /\ entities[id].lastReferencedVariableIds = NoVariables

\* The invalidation transition of the state table.
InvalidationOf(w) ==
    IF w.state = READY THEN [w EXCEPT !.state = UNLOADED]
    ELSE IF w.state = UPGRADING THEN [w EXCEPT !.state = UPGRADING_INVALIDATED]
    ELSE w

\* The table after the invalidation of the records whose entity is of a kind.
InvalidatedKind(kind) ==
    [id \in DOMAIN entities |->
        IF entities[id].entity.live /\ EntityType(id) = kind
        THEN InvalidationOf(entities[id])
        ELSE entities[id]]

\* C15: onEntityDefinitionsChanged(kind) applies to the records whose entity
\* is of that kind, and resendFeedbacks to the records whose entity is a
\* feedback, the transition Ready -> Unloaded, Upgrading ->
\* UpgradingInvalidated, every other state unchanged; the records of the other
\* kind, and those whose entity was reclaimed, are unchanged.
C15_InvalidationTransition ==
    [][/\ \A kind \in EntityTypes :
            (\E d \in DefinitionIds : OnEntityDefinitionsChanged(kind, d))
                => entities' = InvalidatedKind(kind)
       /\ ResendFeedbacks => entities' = InvalidatedKind(Feedback)]_vars

\* A definition change of one kind marked the record of that kind, which was
\* Upgrading, and left the Upgrading record of the other kind alone.
C15_Witness ==
    /\ out.op = "onEntityDefinitionsChanged"
    /\ out.poked
    /\ \E id \in DOMAIN entities, other \in DOMAIN entities :
          /\ EntityType(id) # EntityType(other)
          /\ entities[id].state = UPGRADING_INVALIDATED
          /\ entities[other].state = UPGRADING

\* The step sent nothing to the module and delivered nothing to a control.
NothingEmitted ==
    /\ out'.updates = {}
    /\ out'.upgrades = {}
    /\ out'.replaced = << >>
    /\ inflight' \subseteq inflight

\* C16: destroy cancels the scheduled drain, empties the record table and
\* closes the gate, and sends no RPC; the success reply of an upgrade RPC that
\* was in flight, processed while the gate is closed, changes no record,
\* delivers no replacement, sends no RPC and schedules no drain.
C16_DestroyShortCircuits ==
    [][/\ out'.op = "destroy" =>
            /\ ~pendingTick'
            /\ entities' = EmptyMap
            /\ ~ready'
            /\ inflight' = inflight
            /\ NothingEmitted
       /\ (~ready /\ out'.op \in {"reply", "replyClosed"}) =>
            /\ entities' = entities
            /\ nextWrapperId' = nextWrapperId
            /\ pendingTick' = pendingTick
            /\ NothingEmitted]_vars

\* The reply of an RPC sent before destroy arrived with the gate closed, after
\* an entity of its batch had been tracked again.
C16_Witness ==
    /\ out.op = "replyClosed"
    /\ ~ready
    /\ \E p \in out.batch :
          /\ p[1] \in DOMAIN entities
          /\ entities[p[1]].state = UNLOADED
          /\ entities[p[1]].wrapperId > p[2]

\* C17 as stated: every replacement model a successful reply delivers to a
\* control carries an upgrade index greater than or equal to the upgrade index
\* the entity had when it was sent for upgrade.
C17_UpgradeIndexNeverDecreases ==
    [][out'.op = "reply" =>
          \A i \in DOMAIN out'.replaced :
              out'.replaced[i].upgradeIndex
                  >= entities[out'.replaced[i].id].entity.upgradeIndex]_vars

\* The delete items the last step sent for an entity id.
DeletesFor(o, id) == {it \in UpdatesFor(o, id) : it.type = "delete"}

\* C18: a drain with the gate open removes every record it finds in
\* PendingDelete and sends no update and no upgrade item for it; it sends one
\* delete item for it if its weak handle is live and none if the entity was
\* reclaimed, so the module is not told of that deletion.
C18_PendingDeleteDrained ==
    [][(ProcessPending /\ ready) =>
          \A id \in DOMAIN entities :
              entities[id].state = PENDING_DELETE =>
                  /\ id \notin DOMAIN entities'
                  /\ <<id, entities[id]>> \in out'.deleted
                  /\ UpgradesFor(out', id) = {}
                  /\ UpdatesFor(out', id) = DeletesFor(out', id)
                  /\ Cardinality(DeletesFor(out', id)) =
                        IF entities[id].entity.live THEN 1 ELSE 0]_vars

\* A drain removed a PendingDelete record whose entity had been reclaimed and
\* sent nothing for it.
C18_Witness ==
    /\ out.op = "drain"
    /\ \E d \in out.deleted :
          /\ d[2].state = PENDING_DELETE
          /\ ~d[2].entity.live
          /\ d[1] \notin DOMAIN entities
          /\ UpdatesFor(out, d[1]) = {}

\* The record under id after the step is one the step created.
CreatedInStep(id) ==
    /\ id \in DOMAIN entities'
    /\ (id \in DOMAIN entities => entities'[id].wrapperId # entities[id].wrapperId)

C20_DrainLoadsOrUpgrades ==
    [][(ProcessPending /\ ready) =>
          \A id \in DOMAIN entities :
              (entities[id].state = UNLOADED /\ entities[id].entity.live) =>
                  /\ id \in DOMAIN entities'
                  /\ entities'[id].wrapperId = entities[id].wrapperId
                  /\ IF entities[id].entity.upgradeIndex \in {NoIndex, currentUpgradeIndex}
                     THEN /\ entities'[id].state = READY
                          /\ UpgradesFor(out', id) = {}
                          /\ \A p \in out'.batch : p[1] # id
                     ELSE /\ entities'[id] = [entities[id] EXCEPT !.state = UPGRADING]
                          /\ Cardinality(UpgradesFor(out', id)) = 1
                          /\ {p \in out'.batch : p[1] = id}
                                = {<<id, entities[id].wrapperId>>}
                          /\ \E rpc \in inflight' \ inflight :
                                /\ rpc.batch = out'.batch
                                /\ rpc.upgradeIndex = currentUpgradeIndex]_vars

\* One drain sent for upgrade an entity whose upgrade index is larger than the
\* current one and loaded an entity without an upgrade index.
C20_Witness ==
    /\ out.op = "drain"
    /\ \E id \in DOMAIN entities, other \in DOMAIN entities :
          /\ entities[id].state = UPGRADING
          /\ entities[id].entity.upgradeIndex > currentUpgradeIndex
          /\ <<id, entities[id].wrapperId>> \in out.batch
          /\ Cardinality(UpgradesFor(out, id)) = 1
          /\ entities[other].state = READY
          /\ entities[other].entity.upgradeIndex = NoIndex
          /\ Cardinality(UpdatesFor(out, other)) = 1

\* The work items of all three kinds the last step holds for an entity id.
ItemCount(o, id) == Cardinality(UpdatesFor(o, id)) + Cardinality(UpgradesFor(o, id))

\* C21: in one drain a record contributes at most one work item over the
\* update, delete and upgrade lists; no entity id is in the update batch and
\* in the upgrade batch of one drain, and an entity sent for upgrade gets no
\* update item in that drain.
C21_OneItemPerRecord ==
    out.op = "drain" =>
        \A id \in EntityIds :
            /\ ItemCount(out, id) <= 1
            /\ (UpgradesFor(out, id) # {} \/ id \in {p[1] : p \in out.batch})
                  => UpdatesFor(out, id) = {}
            /\ (UpgradesFor(out, id) # {}) = (id \in {p[1] : p \in out.batch})

\* One drain sent the delete item of one entity and the upgrade item of the
\* other, one item each.
C21_Witness ==
    /\ out.op = "drain"
    /\ \E id \in EntityIds, other \in EntityIds :
          /\ id # other
          /\ Cardinality(DeletesFor(out, id)) = 1
          /\ ItemCount(out, id) = 1
          /\ Cardinality(UpgradesFor(out, other)) = 1
          /\ ItemCount(out, other) = 1
          /\ entities[other].state = UPGRADING

\* C22: when forgetEntity is called on a record whose upgrade is in flight, the
\* replacement of the reply is not delivered for that record: the reply finds
\* the record PendingDelete and leaves it as it is, or finds it removed by a
\* drain; and a drain sends the delete item of such a record (its handle
\* live) and removes it whether or not the reply has arrived.
C22_ForgetDuringUpgrade ==
    [][/\ \A rpc \in inflight :
            (ReplyStepOf(rpc) /\ out'.op = "reply") =>
                \A id \in BatchIds(rpc) :
                    (\/ Mismatch(rpc, id)
                     \/ entities[id].state = PENDING_DELETE)
                        => /\ ReplaceCount(out', id) = 0
                           /\ (id \in DOMAIN entities /\ entities[id].entity.live
                                  => id \in DOMAIN entities'
                                        /\ entities'[id] = entities[id])
       /\ \A id \in DOMAIN entities :
            (/\ ProcessPending
             /\ ready
             /\ InflightWith(id) # {}
             /\ entities[id].state = PENDING_DELETE
             /\ entities[id].entity.live)
                => /\ DeletesFor(out', id) = {DeleteItemOf(id)}
                   /\ id \notin DOMAIN entities'
                   /\ inflight \subseteq inflight'
                   /\ \A rpc \in inflight' \ inflight : id \notin BatchIds(rpc)]_vars

\* A reply with a replacement arrived for a record that forgetEntity had set
\* to PendingDelete: nothing was delivered and the record still awaits its
\* drain.
C22_Witness ==
    /\ out.op = "reply"
    /\ pendingTick
    /\ \E id \in DOMAIN out.seen :
          /\ out.seen[id] = PENDING_DELETE
          /\ id \in out.upgraded
          /\ ReplaceCount(out, id) = 0
          /\ StillBatchRecord(id)
          /\ entities[id].state = PENDING_DELETE

\* The update items (not the delete items) the last step sent for an entity id.
UpdateItemsFor(o, id) == {it \in UpdatesFor(o, id) : it.type = "update"}

\* The calls that invalidate a record.
InvalidationOps == {"onVariablesChanged", "onEntityDefinitionsChanged", "resendFeedbacks"}

\* C23: a drain sends an update item only for a record it finds Unloaded, and
\* leaves that record Ready; a record that is Ready becomes Unloaded again
\* only through onVariablesChanged, onEntityDefinitionsChanged or
\* resendFeedbacks (or is replaced by a trackEntity of its id), so a record
\* that stays Ready gets no second update item.
C23_NoReemission ==
    [][/\ \A id \in EntityIds :
            UpdateItemsFor(out', id) # {} =>
                /\ id \in DOMAIN entities
                /\ entities[id].state = UNLOADED
                /\ id \in DOMAIN entities'
                /\ entities'[id].wrapperId = entities[id].wrapperId
                /\ entities'[id].state = READY
       /\ \A id \in DOMAIN entities :
            (/\ entities[id].state = READY
             /\ id \in DOMAIN entities'
             /\ entities'[id].wrapperId = entities[id].wrapperId
             /\ entities'[id].state # READY)
                => \/ entities'[id].state = UNLOADED /\ out'.op \in InvalidationOps
                   \/ entities'[id].state = PENDING_DELETE /\ out'.op = "forgetEntity"]_vars

\* A later drain ran for another entity and sent nothing for the record that
\* an earlier drain had loaded and that stayed Ready.
C23_Witness ==
    /\ out.op = "drain"
    /\ ~out.afterStart
    /\ \E id \in DOMAIN entities, other \in DOMAIN entities :
          /\ entities[id].state = READY
          /\ entities[id].lastReferencedVariableIds # NoVariables
          /\ UpdatesFor(out, id) = {}
          /\ entities[other].wrapperId > entities[id].wrapperId
          /\ UpdateItemsFor(out, other) # {}

\* The step changed the state of a record.
StateMoved ==
    \E id \in DOMAIN entities :
        id \in DOMAIN entities' /\ entities'[id].state # entities[id].state

\* C24 as stated: resendFeedbacks, onVariablesChanged and
\* onEntityDefinitionsChanged poke the scheduler if and only if the call
\* changed the state of a record; a call that moves nothing schedules no drain.
C24_PokeIffMoved ==
    [][out'.op \in InvalidationOps =>
          /\ out'.poked = StateMoved
          /\ pendingTick' = (pendingTick \/ StateMoved)]_vars

\* C24 amended: onVariablesChanged and onEntityDefinitionsChanged poke the
\* scheduler if and only if the call changed the state of a record;
\* resendFeedbacks pokes the scheduler on every call, also when it moved
\* nothing.
C24_PokeIffMovedButResend ==
    [][/\ out'.op \in {"onVariablesChanged", "onEntityDefinitionsChanged"} =>
            /\ out'.poked = StateMoved
            /\ pendingTick' = (pendingTick \/ StateMoved)
       /\ out'.op = "resendFeedbacks" =>
            /\ out'.poked
            /\ pendingTick']_vars

\* resendFeedbacks was the first call, on an empty table: it scheduled a drain.
C24_Witness ==
    /\ out.op = "resendFeedbacks"
    /\ callsMade = 1
    /\ entities = EmptyMap
    /\ out.poked
    /\ pendingTick

\* C25: a successful reply processed with the gate open pokes the scheduler
\* after the batch, whatever became of its entries, and the scheduled tick
\* stays until the drain runs or destroy cancels it, so the records the reply
\* set to Unloaded or the controls tracked again are visited by a later drain.
C25_ReplyAlwaysPokes ==
    /\ [](out.op = "reply" => out.poked /\ pendingTick)
    /\ [][(pendingTick /\ ~pendingTick') =>
            out'.op \in {"drain", "drainClosed", "destroy"}]_vars
    /\ [][(ProcessPending /\ ready) =>
            \A id \in DOMAIN entities :
                (entities[id].state = UNLOADED /\ id \in DOMAIN entities')
                    => entities'[id].state \in {READY, UPGRADING}]_vars

\* A reply whose only entry was skipped, its control missing, left the record
\* Upgrading and still scheduled a drain.
C25_Witness ==
    /\ out.op = "reply"
    /\ out.poked
    /\ pendingTick
    /\ \E id \in DOMAIN out.control :
          /\ DOMAIN out.control = {id}
          /\ out.control[id] = "missing"
          /\ StillBatchRecord(id)
          /\ entities[id].state = UPGRADING

\* C26: a record whose weak handle was reclaimed is dropped without an RPC: a
\* drain removes an Unloaded record with a reclaimed handle and sends no
\* update, delete or upgrade item for it, and a successful reply removes a
\* record of its batch (wrapper id matching) whose handle is reclaimed and
\* delivers no replacement for it.
C26_ReclaimedDroppedSilently ==
    [][/\ (ProcessPending /\ ready) =>
            \A id \in DOMAIN entities :
                (entities[id].state = UNLOADED /\ ~entities[id].entity.live) =>
                    /\ id \notin DOMAIN entities'
                    /\ ItemCount(out', id) = 0
                    /\ \A p \in out'.batch : p[1] # id
       /\ \A rpc \in inflight :
            (ReplyStepOf(rpc) /\ out'.op = "reply") =>
                \A id \in BatchIds(rpc) :
                    (~Mismatch(rpc, id) /\ ~entities[id].entity.live) =>
                        /\ id \notin DOMAIN entities'
                        /\ ReplaceCount(out', id) = 0]_vars

\* A reply held a replacement for an entity that was reclaimed while the RPC
\* was in flight: the record was removed and nothing was delivered.
C26_Witness ==
    /\ out.op = "reply"
    /\ \E id \in DOMAIN out.seen :
          /\ out.seen[id] = "reclaimed"
          /\ id \in out.upgraded
          /\ id \notin DOMAIN entities
          /\ ReplaceCount(out, id) = 0
          /\ \E d \in out.deleted : d[1] = id /\ d[2].state = UPGRADING

\* The definition of the entity under id is absent or has no lifecycle functions.
NoLifecycle(id) == definitions[EntityType(id)] \in {NoDefinition, DefPlain}

\* C27: a drain turns an Unloaded record with a live handle and a non-stale
\* upgrade index whose entity definition is absent or has no lifecycle
\* functions Ready without an update item and without parsing its options (no
\* last-referenced set is stored); an update item is sent only for a record
\* found Unloaded while its definition is there with lifecycle functions, and
\* a record made Ready without parsing is Unloaded again only by
\* onEntityDefinitionsChanged or resendFeedbacks (or replaced by a re-track).
C27_NoLifecycleNoUpdate ==
    [][/\ (ProcessPending /\ ready) =>
            \A id \in DOMAIN entities :
                (/\ entities[id].state = UNLOADED
                 /\ entities[id].entity.live
                 /\ NonStale(entities[id])
                 /\ NoLifecycle(id))
                    => /\ id \in DOMAIN entities'
                       /\ entities'[id] = [entities[id] EXCEPT !.state = READY]
                       /\ UpdatesFor(out', id) = {}
                       /\ UpgradesFor(out', id) = {}
       /\ \A id \in EntityIds :
            UpdateItemsFor(out', id) # {} =>
                /\ ~NoLifecycle(id)
                /\ id \in DOMAIN entities
                /\ entities[id].state = UNLOADED
                /\ out.op # "drain"
       /\ \A id \in DOMAIN entities :
            (/\ entities[id].state = READY
             /\ entities[id].lastReferencedVariableIds = NoVariables
             /\ id \in DOMAIN entities'
             /\ entities'[id].wrapperId = entities[id].wrapperId
             /\ entities'[id].state = UNLOADED)
                => out'.op \in {"onEntityDefinitionsChanged", "resendFeedbacks"}]_vars

\* The definitions of a type were removed, an entity of that type was tracked
\* and the drain right after start made it Ready without sending anything.
C27_Witness ==
    /\ out.op = "drain"
    /\ out.afterStart
    /\ callsMade = 3
    /\ nextWrapperId = 2
    /\ out.updates = {}
    /\ out.upgrades = {}
    /\ \E id \in DOMAIN entities :
          /\ definitions[EntityType(id)] = NoDefinition
          /\ entities[id].state = READY
          /\ entities[id].entity.live
          /\ entities[id].lastReferencedVariableIds = NoVariables

\* C28: on every record table, onVariablesChanged(V) followed by
\* onEntityDefinitionsChanged(k) leaves the same records as the two calls in
\* the other order, and each of the two calls applied twice leaves the same
\* records as applied once.
C28_InvalidationsCommute ==
    \A V \in SUBSET VariableIds, k \in EntityTypes :
        /\ DefinitionsChangedTable(VariablesChangedTable(entities, V), k)
              = VariablesChangedTable(DefinitionsChangedTable(entities, k), V)
        /\ VariablesChangedTable(VariablesChangedTable(entities, V), V)
              = VariablesChangedTable(entities, V)
        /\ DefinitionsChangedTable(DefinitionsChangedTable(entities, k), k)
              = DefinitionsChangedTable(entities, k)

\* onVariablesChanged moved a record of the table, and a definition change
\* still has a record to move: one Upgrading, of either kind.
C28_Witness ==
    /\ out.op = "onVariablesChanged"
    /\ out.poked
    /\ \E id \in DOMAIN entities :
          /\ entities[id].state = UNLOADED
          /\ entities[id].lastReferencedVariableIds = <<{"v3"}>>
    /\ \E id \in DOMAIN entities :
          /\ entities[id].state = UPGRADING
          /\ entities[id].entity.live
          /\ DefinitionsChangedTable(entities, EntityType(id)) # entities

\* C29: when the control of an entry is missing or supports no entities, or
\* entityReplace throws, a successful reply leaves the record of that entry as
\* it was (Upgrading, same wrapper), delivers nothing for a missing control,
\* still reconciles the other entries of the batch (an invalidated record
\* goes to Unloaded, a replacement with its control there is delivered once,
\* a reclaimed record is removed) and still pokes the scheduler.
C29_SkippedEntryKeepsBatchGoing ==
    out.op = "reply" =>
        /\ out.poked
        /\ pendingTick
        /\ \A id \in DOMAIN out.control :
              out.control[id] \in {"missing", "throws"} =>
                  /\ StillBatchRecord(id)
                  /\ entities[id].state = UPGRADING
                  /\ ReplaceCount(out, id) = IF out.control[id] = "throws" THEN 1 ELSE 0
        /\ \A id \in DOMAIN out.seen :
              /\ out.seen[id] = UPGRADING_INVALIDATED =>
                    StillBatchRecord(id) /\ entities[id].state = UNLOADED
              /\ out.seen[id] = "reclaimed" => id \notin DOMAIN entities
              /\ (out.seen[id] = UPGRADING /\ out.control[id] = "ok" /\ id \in out.upgraded) =>
                    /\ ReplaceCount(out, id) = 1
                    /\ id \in DOMAIN entities
                    /\ ~StillBatchRecord(id)
                    /\ entities[id].state = UNLOADED

\* entityReplace threw for the first entry of a batch; the replacement of the
\* second entry was delivered all the same and the scheduler was poked.
C29_Witness ==
    /\ out.op = "reply"
    /\ out.poked
    /\ \E id \in DOMAIN out.control, other \in DOMAIN out.control :
          /\ Rank(id, {id, other}) = 0
          /\ out.control[id] = "throws"
          /\ entities[id].state = UPGRADING
          /\ StillBatchRecord(id)
          /\ out.control[other] = "ok"
          /\ other \in out.upgraded
          /\ ~StillBatchRecord(other)
          /\ entities[other].state = UNLOADED

\* C30: an upgrade RPC is dispatched with the current upgrade index of that
\* moment, and every replacement model its reply produces carries that index,
\* also when start has set another current upgrade index while the RPC was in
\* flight.
C30_ReplacementCarriesDispatchIndex ==
    [][/\ \A rpc \in inflight' \ inflight :
            /\ out'.op = "drain"
            /\ rpc.upgradeIndex = currentUpgradeIndex
       /\ \A rpc \in inflight :
            (ReplyStepOf(rpc) /\ out'.op = "reply") =>
                \A i \in DOMAIN out'.replaced :
                    out'.replaced[i].upgradeIndex = rpc.upgradeIndex]_vars

\* start set another upgrade index while an RPC was in flight; the
\* replacement of its reply carries the index of the dispatch.
C30_Witness ==
    /\ out.op = "reply"
    /\ \E i \in DOMAIN out.replaced :
          /\ out.replaced[i].upgradeIndex # currentUpgradeIndex
          /\ out.control[out.replaced[i].id] = "ok"
          /\ entities[out.replaced[i].id].entity.upgradeIndex
                = out.replaced[i].upgradeIndex

\* C31: a drain calls updateEntities before upgradeEntities when it produced
\* both kinds of item; with no update or delete item it does not call
\* updateEntities, and with no upgrade item it does not call upgradeEntities.
C31_UpdateBeforeUpgrade ==
    out.op = "drain" =>
        /\ out.sent =
              CASE out.updates # {} /\ out.upgrades # {} ->
                      <<"updateEntities", "upgradeEntities">>
                [] out.updates # {} /\ out.upgrades = {} -> <<"updateEntities">>
                [] out.updates = {} /\ out.upgrades # {} -> <<"upgradeEntities">>
                [] OTHER -> << >>
        /\ (out.updates = {}) => out.messages = << >>
        /\ (out.upgrades = {}) => out.batch = {}
C31_Witness ==
    /\ out.op = "drain"
    /\ out.updates # {}
    /\ out.upgrades # {}
    /\ out.sent = <<"updateEntities", "upgradeEntities">>

\* C33: a drain that sends an update item for a record stores as its
\* last-referenced set exactly the variables of the parsed fields that are
\* not ignored for subscribe (v1 and v2 of the label, not v3 of the id
\* field); onVariablesChanged with only the ignored field's variable leaves
\* every record as it was, pokes nothing and emits nothing, while
\* onVariablesChanged with a referenced variable sets the Ready record to
\* Unloaded and pokes, and the drain that finds it Unloaded (live, not stale,
\* definition with lifecycle functions) sends a new update item for it.
C33_IgnoredVariablesNoRerun ==
    [][/\ \A id \in EntityIds :
            UpdateItemsFor(out', id) # {} =>
                /\ id \in DOMAIN entities'
                /\ entities'[id].lastReferencedVariableIds = <<{"v1", "v2"}>>
       /\ (out'.op = "onVariablesChanged" /\ out'.changed = {"v3"}) =>
            /\ entities' = entities
            /\ pendingTick' = pendingTick
            /\ ~out'.poked
            /\ out'.updates = {}
            /\ out'.upgrades = {}
       /\ \A changed \in ChangedSets : \A id \in DOMAIN entities :
            ( /\ out'.op = "onVariablesChanged"
              /\ out'.changed = changed
              /\ changed \cap {"v1", "v2"} # {}
              /\ entities[id].state = READY
              /\ entities[id].lastReferencedVariableIds = <<{"v1", "v2"}>> )
            => /\ entities'[id] = [entities[id] EXCEPT !.state = UNLOADED]
               /\ pendingTick'
               /\ out'.poked
       /\ \A id \in DOMAIN entities :
            ( /\ out'.op = "drain"
              /\ entities[id].state = UNLOADED
              /\ entities[id].lastReferencedVariableIds # NoVariables
              /\ entities[id].entity.live
              /\ NonStale(entities[id])
              /\ ~NoLifecycle(id) )
            => /\ UpdateItemsFor(out', id) # {}
               /\ entities'[id].state = READY]_vars
C33_Witness ==
    /\ out.op = "onVariablesChanged"
    /\ out.changed = {"v3"}
    /\ ~out.poked
    /\ ~pendingTick
    /\ \E id \in DOMAIN entities :
          /\ entities[id].state = READY
          /\ entities[id].lastReferencedVariableIds = <<{"v1", "v2"}>>

\* The text a parse leaves for a raw option value: every variable reference
\* replaced by the value of its variable, every other token kept.
Substituted(value) ==
    [i \in DOMAIN StringOf(value) |->
        IF \E v \in VariableIds : StringOf(value)[i] = VarRef(v)
        THEN VarValue(CHOOSE v \in VariableIds : StringOf(value)[i] = VarRef(v))
        ELSE StringOf(value)[i]]
DeclaredField(def, f) == \E i \in DOMAIN def.options : def.options[i].id = f
TextWithVariables(def, f) ==
    \E i \in DOMAIN def.options :
        /\ def.options[i].id = f
        /\ def.options[i].type = "textinput"
        /\ def.options[i].useVariables

\* C34: parseOptionsObject with an unknown definition returns the input
\* options unchanged and an empty variable set; with a known definition the
\* keys of the parsed options are exactly the field ids the definition
\* declares (an undeclared option is dropped, also when a declared one is
\* missing from the input), a field that is not a text input with variables
\* enabled keeps its raw value, and a parsed field holds the substituted text.
C34_ParseOptionsObject ==
    out.op = "parseOptionsObject" =>
        IF ~out.definition.known
        THEN /\ out.result.parsedOptions = out.options
             /\ out.result.referencedVariableIds = {}
        ELSE /\ DOMAIN out.result.parsedOptions = {"label", "id", "num"}
             /\ \A f \in {"label", "id", "num"} :
                   /\ DeclaredField(out.definition, f)
                   /\ out.result.parsedOptions[f] =
                         IF TextWithVariables(out.definition, f)
                         THEN Substituted(OptionOf(out.options, f))
                         ELSE OptionOf(out.options, f)
C34_Witness ==
    /\ out.op = "parseOptionsObject"
    /\ out.definition.known
    /\ "junk" \in DOMAIN out.options
    /\ "num" \in DOMAIN out.options
    /\ "label" \in DOMAIN out.options
    /\ out.options.label = <<"x", VarRef("v1")>>
    /\ TextWithVariables(out.definition, "label")
    /\ out.result.parsedOptions.label = <<"x", VarValue("v1")>>
    /\ out.result.parsedOptions.num = <<"7">>
    /\ "junk" \notin DOMAIN out.result.parsedOptions

\* The payload of the message of a name among those a step sent.
MessagesNamed(o, name) == {k \in DOMAIN o.messages : o.messages[k].name = name}
SentPayload(o, name) ==
    IF MessagesNamed(o, name) = {} THEN EmptyMap
    ELSE o.messages[CHOOSE k \in MessagesNamed(o, name) : TRUE].payload
MessageOfType(entityType) ==
    IF entityType = Action THEN "updateActions" ELSE "updateFeedbacks"
OtherType(entityType) == IF entityType = Action THEN Feedback ELSE Action

\* C35: updateEntities of the transport puts every item it is given into the
\* payload of the item's own entity type and not into the other one, a delete
\* item as id -> null and an update item as id -> an instance carrying the
\* item's parsed options; it sends updateActions only when the action payload
\* is not empty and updateFeedbacks only when the feedback payload is not
\* empty, each at most once.
C35_PayloadByKind ==
    out.op = "drain" =>
        /\ \A item \in out.updates :
              LET own == SentPayload(out, MessageOfType(ItemEntityType(item)))
                  other == SentPayload(out, MessageOfType(OtherType(ItemEntityType(item))))
              IN  /\ item.entityId \in DOMAIN own
                  /\ item.entityId \notin DOMAIN other
                  /\ item.type = "delete" => own[item.entityId] = << >>
                  /\ item.type = "update" =>
                        /\ Len(own[item.entityId]) = 1
                        /\ own[item.entityId][1].id = item.entityId
                        /\ own[item.entityId][1].controlId = item.controlId
                        /\ own[item.entityId][1].options = item.parsedOptions
        /\ \A entityType \in EntityTypes :
              /\ Cardinality(MessagesNamed(out, MessageOfType(entityType))) =
                    IF \E item \in out.updates : ItemEntityType(item) = entityType
                    THEN 1 ELSE 0
              /\ DOMAIN SentPayload(out, MessageOfType(entityType)) =
                    {item.entityId : item \in {i \in out.updates :
                                                  ItemEntityType(i) = entityType}}
        /\ \A k \in DOMAIN out.messages :
              /\ out.messages[k].name \in {"updateActions", "updateFeedbacks"}
              /\ DOMAIN out.messages[k].payload # {}
C35_Witness ==
    /\ out.op = "drain"
    /\ Len(out.messages) = 2
    /\ out.messages[1].name = "updateActions"
    /\ out.messages[2].name = "updateFeedbacks"
    /\ \E a \in DOMAIN out.messages[1].payload, f \in DOMAIN out.messages[2].payload :
          /\ Len(out.messages[1].payload[a]) = 1
          /\ out.messages[1].payload[a][1].options = ExpectedParsedOptions
          /\ out.messages[2].payload[f] = << >>

\* The RPCs in flight whose batch snapshot holds the record under id.
RepliesToCome(id) ==
    {rpc \in inflight : <<id, entities[id].wrapperId>> \in rpc.batch}

\* C36 as stated: whenever a record is Upgrading or UpgradingInvalidated,
\* exactly one upgradeEntities RPC is in flight whose batch snapshot holds the
\* record's entity id with the record's wrapper id.
C36_UpgradingHasReplyToCome ==
    \A id \in DOMAIN entities :
        entities[id].state \in {UPGRADING, UPGRADING_INVALIDATED}
            => Cardinality(RepliesToCome(id)) = 1

\* C37 as stated: a record that a failed upgrade RPC set from Upgrading to
\* Ready has never had an update item emitted for it. A wrapper holds a stored
\* variable set exactly if a drain has sent an update item for it.
C37_NeverSentBefore ==
    out.op = "replyFailed" =>
        \A id \in DOMAIN out.seen :
            ( /\ out.seen[id] = UPGRADING
              /\ id \in DOMAIN entities
              /\ entities[id].state = READY )
            => entities[id].lastReferencedVariableIds = NoVariables

\* C37 amended: the failure of an upgrade RPC sets a record of its batch that
\* is Upgrading to Ready without sending anything: neither the drain that
\* sent the record for upgrade nor the failure handling emits an update item
\* for it, and the stored variable set is left as it was (a wrapper gets a
\* stored set only in a drain that sends an update item for it). While the
\* record stays Ready a drain leaves it alone and emits no update and no
\* upgrade item for it; it leaves Ready only through an invalidation
\* (onVariablesChanged, onEntityDefinitionsChanged, resendFeedbacks) or
\* forgetEntity, or is replaced by a trackEntity of its id.
C37_FailedUpgradeStaysUnsent ==
    [][/\ \A rpc \in inflight : \A id \in BatchIds(rpc) :
            ( /\ ReplyStepOf(rpc)
              /\ out'.op = "replyFailed"
              /\ ~Mismatch(rpc, id)
              /\ entities[id].state = UPGRADING )
            => /\ entities'[id] = [entities[id] EXCEPT !.state = READY]
               /\ out'.updates = {}
               /\ out'.upgrades = {}
               /\ out'.sent = << >>
               /\ out'.messages = << >>
               /\ inflight' = inflight \ {rpc}
       /\ \A id \in DOMAIN entities :
            ( /\ id \in DOMAIN entities'
              /\ entities'[id].wrapperId = entities[id].wrapperId
              /\ entities[id].state # UPGRADING
              /\ entities'[id].state = UPGRADING )
            => /\ UpdatesFor(out', id) = {}
               /\ entities[id].state = UNLOADED
       /\ \A id \in DOMAIN entities :
            ( /\ out'.op \in {"drain", "drainClosed"}
              /\ entities[id].state = READY )
            => /\ id \in DOMAIN entities'
               /\ entities'[id] = entities[id]
               /\ UpdatesFor(out', id) = {}
               /\ UpgradesFor(out', id) = {}
               /\ \A rpc \in inflight' \ inflight : id \notin BatchIds(rpc)
       /\ \A id \in DOMAIN entities :
            ( /\ entities[id].state = READY
              /\ id \in DOMAIN entities'
              /\ entities'[id].wrapperId = entities[id].wrapperId
              /\ entities'[id].state # READY )
            => out'.op \in InvalidationOps \cup {"forgetEntity"}
       /\ \A id \in DOMAIN entities' :
            ( /\ entities'[id].lastReferencedVariableIds # NoVariables
              /\ (CreatedInStep(id) \/ entities[id].lastReferencedVariableIds = NoVariables) )
            => /\ ~CreatedInStep(id)
               /\ UpdateItemsFor(out', id) # {}]_vars

\* A record that a failed RPC made Ready (stale upgrade index, nothing parsed
\* for it, definition with lifecycle functions) went through the poked drain,
\* which sent nothing.
C37_Witness ==
    /\ out.op = "drain"
    /\ ~out.afterStart
    /\ out.updates = {}
    /\ out.upgrades = {}
    /\ \E id \in DOMAIN entities :
          /\ entities[id].state = READY
          /\ entities[id].lastReferencedVariableIds = NoVariables
          /\ entities[id].entity.live
          /\ ~NonStale(entities[id])
          /\ ~NoLifecycle(id)
          /\ callsMade = 2

\* The record under id was created after rpc was dispatched for that id.
TrackedAgainSince(rpc, id) ==
    /\ id \in DOMAIN entities
    /\ \E p \in rpc.batch : p[1] = id /\ p[2] < entities[id].wrapperId

\* C38: when the engine was destroyed and started again and an entity id was
\* tracked again while an upgrade RPC dispatched before the destroy is still
\* in flight, the reply of that RPC, success or failure, arriving while the
\* gate is open, leaves the new record under that id exactly as it was and
\* delivers no replacement for it.
C38_OldReplyAfterRestart ==
    [][\A rpc \in inflight : \A id \in EntityIds :
          ( /\ out'.op \in {"reply", "replyFailed"}
            /\ out'.batch = rpc.batch
            /\ inflight' = inflight \ {rpc}
            /\ ready
            /\ TrackedAgainSince(rpc, id) )
          => /\ id \in DOMAIN entities'
             /\ entities'[id] = entities[id]
             /\ ReplaceCount(out', id) = 0]_vars

\* The reply of the RPC of before the destroy held a replacement for an
\* entity id whose new record had itself been sent for upgrade.
C38_Witness ==
    /\ out.op = "reply"
    /\ ready
    /\ \E id \in DOMAIN out.seen :
          /\ out.seen[id] = "gone"
          /\ id \in out.upgraded
          /\ id \in DOMAIN entities
          /\ entities[id].state = UPGRADING
          /\ \E p \in out.batch : p[1] = id /\ p[2] < entities[id].wrapperId
          /\ \E rpc \in inflight : <<id, entities[id].wrapperId>> \in rpc.batch

\* The states a drain has nothing to do for.
SettledStates == {READY, UPGRADING, UPGRADING_INVALIDATED}

\* C39: a drain leaves every record that is Ready, Upgrading or
\* UpgradingInvalidated exactly as it was and emits no update, delete or
\* upgrade item for it; a drain that finds no record Unloaded or PendingDelete
\* calls neither updateEntities nor upgradeEntities and changes no record, no
\* RPC in flight, and neither the gate nor the upgrade index.
C39_DrainFrame ==
    [][/\ \A id \in DOMAIN entities :
            ( /\ out'.op \in {"drain", "drainClosed"}
              /\ entities[id].state \in SettledStates )
            => /\ id \in DOMAIN entities'
               /\ entities'[id] = entities[id]
               /\ UpdatesFor(out', id) = {}
               /\ UpgradesFor(out', id) = {}
               /\ \A p \in out'.batch : p[1] # id
       /\ ( /\ out'.op \in {"drain", "drainClosed"}
            /\ \A id \in DOMAIN entities : entities[id].state \in SettledStates )
          => /\ entities' = entities
             /\ inflight' = inflight
             /\ ready' = ready
             /\ currentUpgradeIndex' = currentUpgradeIndex
             /\ out'.updates = {}
             /\ out'.upgrades = {}
             /\ out'.sent = << >>
             /\ out'.messages = << >>]_vars

\* A poked drain with the gate open found one record UpgradingInvalidated and
\* another Ready, and sent nothing.
C39_Witness ==
    /\ out.op = "drain"
    /\ out.sent = << >>
    /\ inflight # {}
    /\ \A id \in DOMAIN entities : entities[id].state \in SettledStates
    /\ \E id \in DOMAIN entities, other \in DOMAIN entities :
          /\ entities[id].state = UPGRADING_INVALIDATED
          /\ entities[other].state = READY

\* The step is a drain (with the gate open) that makes the record under id
\* Ready.
DrainMakesReady(id) ==
    /\ out'.op = "drain"
    /\ id \in DOMAIN entities
    /\ entities[id].state = UNLOADED
    /\ id \in DOMAIN entities'
    /\ entities'[id].state = READY

\* C40 as stated: the last-referenced set of a record a drain makes Ready is
\* the set the option parse of that drain returned, and a record made Ready
\* by a drain that emitted nothing for it has no variables in its set.
C40_SetOfLatestDrain ==
    [][\A id \in DOMAIN entities :
          DrainMakesReady(id) =>
              IF UpdateItemsFor(out', id) # {}
              THEN entities'[id].lastReferencedVariableIds =
                      <<ParseOptionsObject(DefinitionOf(id), EntityOptions)
                            .referencedVariableIds>>
              ELSE entities'[id].lastReferencedVariableIds \in {NoVariables, <<{}>>}]_vars

\* C40 amended: the last-referenced set of a record is the set returned by
\* the most recent option parse of that record, whichever drain ran it: a
\* drain that makes the record Ready and sends an update item stores the set
\* its parse returned, a drain that makes it Ready without an update item
\* (definition absent or without lifecycle functions) keeps the set the
\* record had, no other step changes the set of a record, and a new record
\* has none. onVariablesChanged never moves a record that has no set.
C40_SetOfLatestParse ==
    [][/\ \A id \in DOMAIN entities :
            DrainMakesReady(id) =>
                entities'[id].lastReferencedVariableIds =
                    IF UpdateItemsFor(out', id) # {}
                    THEN <<ParseOptionsObject(DefinitionOf(id), EntityOptions)
                              .referencedVariableIds>>
                    ELSE entities[id].lastReferencedVariableIds
       /\ \A id \in DOMAIN entities' :
            IF CreatedInStep(id)
            THEN entities'[id].lastReferencedVariableIds = NoVariables
            ELSE entities'[id].lastReferencedVariableIds
                    # entities[id].lastReferencedVariableIds
                      => DrainMakesReady(id) /\ UpdateItemsFor(out', id) # {}
       /\ \A changed \in ChangedSets : \A id \in DOMAIN entities :
            ( /\ out'.op = "onVariablesChanged"
              /\ out'.changed = changed
              /\ entities[id].lastReferencedVariableIds = NoVariables )
            => entities'[id] = entities[id]]_vars

\* A record loaded while its definition had lifecycle functions was made
\* Ready again, without an update, after the definition lost them, and still
\* holds the set of the earlier parse.
C40_Witness ==
    /\ out.op = "drain"
    /\ out.updates = {}
    /\ callsMade = 3
    /\ \E id \in DOMAIN entities :
          /\ entities[id].state = READY
          /\ NoLifecycle(id)
          /\ entities[id].lastReferencedVariableIds = <<{"v1", "v2"}>>
====
